---- MODULE Spec2Model ----
(***************************************************************************)
(* Model of examples/web.rs: the start-up sequence of main, the event-loop *)
(* callback (wasm::log_event followed by the event match) and the on-page  *)
(* event log.  The windowing library's event loop is the environment: it   *)
(* chooses which event is delivered next.                                  *)
(***************************************************************************)
EXTENDS Naturals, Sequences, FiniteSets

VARIABLES
    phase,            \* "startup" | "running" | "stopped" | "crashed" | "unloaded"
    stage,            \* number of start-up calls of main that have returned
    ul_created,       \* number of <ul> log lists created so far
    fullscreen,       \* window.fullscreen(): "None" or "Borderless(None)"
    exit_requested,   \* elwt.exit() has been called
    redraw_requested, \* window.request_redraw() has been called
    log_list,         \* children of the <ul>, first child first
    last_event,       \* argument of the latest callback invocation
    panics,           \* panics raised so far, oldest first
    runner_borrowed,  \* the event runner's borrow was never released (panic inside the callback)
    canvas_result,    \* history: what window.canvas() returned in the redraw arm
    releases,         \* history: own-window "f" releases handled to completion
    logged,           \* history: events of the logged kinds whose log_event call returned
    delivered         \* history: what those events show, in the order they were delivered

vars == <<phase, stage, ul_created, fullscreen, exit_requested, redraw_requested,
          log_list, last_event, panics, runner_borrowed, canvas_result, releases, logged,
          delivered>>

----------------------------------------------------------------------------
(* Bounds of the model *)

\* longest on-page log explored
MaxLog == 2

----------------------------------------------------------------------------
(* Events *)

\* window.id() of the window built at line 27
window_id == "w1"

WindowIds == {"w1", "w2"}

NoKey == <<"-", "-">>

Keys == {<<"Character", "f">>, <<"Character", "F">>, <<"Named", "Enter">>}

Ev(variant, wid, we, key, state, repeat) ==
    [variant |-> variant, window_id |-> wid, event |-> we,
     logical_key |-> key, state |-> state, repeat |-> repeat]

\* the callback has not been invoked yet
NoEvent == Ev("-", "-", "-", NoKey, "-", FALSE)

KeyboardEvents ==
    { Ev("WindowEvent", w, "KeyboardInput", k, s[1], s[2]) :
        w \in WindowIds, k \in Keys,
        s \in {<<"Pressed", FALSE>>, <<"Pressed", TRUE>>, <<"Released", FALSE>>} }

PlainWindowEvents ==
    { Ev("WindowEvent", w, we, NoKey, "-", FALSE) :
        w \in WindowIds, we \in {"CloseRequested", "RedrawRequested", "Resized"} }

LoopEvent(variant) == Ev(variant, "-", "-", NoKey, "-", FALSE)

OtherEvents ==
    { LoopEvent(v) : v \in {"AboutToWait", "NewEvents", "DeviceEvent", "UserEvent",
                            "Resumed", "Suspended"} }

\* every event the loop may hand to the callback while it is running
Events == KeyboardEvents \cup PlainWindowEvents \cup OtherEvents

----------------------------------------------------------------------------
(* wasm::log_event *)

\* format!("{event:?}") of the inner WindowEvent: the window id is not part of it
DebugWindowEvent(e) ==
    [kind |-> e.event, logical_key |-> e.logical_key, state |-> e.state, repeat |-> e.repeat]

\* format!("{event:?}") of the whole Event (Resumed, Suspended)
DebugEvent(e) ==
    [kind |-> e.variant, logical_key |-> NoKey, state |-> "-", repeat |-> FALSE]

\* lines 145-153 without the Resumed | Suspended arm
log_text_window_only(e) ==
    IF e.variant = "WindowEvent" /\ e.event = "RedrawRequested" THEN <<>>
    ELSE IF e.variant = "WindowEvent" THEN <<DebugWindowEvent(e)>>
    ELSE <<>>

\* lines 145-153 without the RedrawRequested arm
log_text_with_redraw(e) ==
    IF e.variant = "WindowEvent" THEN <<DebugWindowEvent(e)>>
    ELSE IF e.variant \in {"Resumed", "Suspended"} THEN <<DebugEvent(e)>>
    ELSE <<>>

\* the match of lines 145-153: <<>> is None, <<text>> is Some(text)
log_text(e) ==
    IF e.variant = "WindowEvent" /\ e.event = "RedrawRequested" THEN <<>>
    ELSE IF e.variant = "WindowEvent" THEN <<DebugWindowEvent(e)>>
    ELSE IF e.variant \in {"Resumed", "Suspended"} THEN <<DebugEvent(e)>>
    ELSE <<>>

\* the fallible DOM calls of lines 155-170, in order
LogCalls == <<"web_sys::window", "document", "create_element(li)", "insert_before">>

\* lines 159-166: the text of the <li>; the clock reading of js_sys::Date::new_0()
\* is kept as a fixed prefix
li_text(text) ==
    [prefix |-> "hh:mm:ss.mmm: ", event |-> text]

\* lines 154-171 with the new <li> replacing the children of the list
log_event_replace(list, e) ==
    IF log_text(e) = <<>> THEN list
    ELSE <<li_text(log_text(e)[1])>>

\* lines 154-171 with append_child in place of insert_before
log_event_append(list, e) ==
    IF log_text(e) = <<>> THEN list
    ELSE list \o <<li_text(log_text(e)[1])>>

\* lines 154-171 when every DOM call succeeds: the new <li> goes before the first child
log_event(list, e) ==
    IF log_text(e) = <<>> THEN list
    ELSE <<li_text(log_text(e)[1])>> \o list

----------------------------------------------------------------------------
(* the match of the callback, lines 36-82 *)

\* lines 37-40 with the guard comparing the wrong way
is_close_arm_other_window(e) ==
    e.variant = "WindowEvent" /\ e.event = "CloseRequested" /\ e.window_id # window_id

\* lines 37-40: the CloseRequested pattern and its guard

is_close_arm(e) ==
    e.variant = "WindowEvent" /\ e.event = "CloseRequested" /\ e.window_id = window_id

\* line 41 matching the start of the iteration instead of its end
is_idle_arm_new_events(e) ==
    e.variant = "NewEvents"

\* line 41: the AboutToWait pattern

is_idle_arm(e) ==
    e.variant = "AboutToWait"

\* lines 44-56 with the character compared without regard to case
is_key_arm_ignore_case(e) ==
    /\ e.variant = "WindowEvent" /\ e.event = "KeyboardInput"
    /\ e.logical_key[1] = "Character" /\ e.state = "Released"
    /\ e.window_id = window_id /\ e.logical_key[2] \in {"f", "F"}

\* lines 44-56 without the ElementState::Released pattern
is_key_arm_any_state(e) ==
    /\ e.variant = "WindowEvent" /\ e.event = "KeyboardInput"
    /\ e.logical_key[1] = "Character"
    /\ e.window_id = window_id /\ e.logical_key[2] = "f"

\* lines 44-56: the KeyboardInput pattern and its guard
is_key_arm(e) ==
    /\ e.variant = "WindowEvent" /\ e.event = "KeyboardInput"
    /\ e.logical_key[1] = "Character" /\ e.state = "Released"
    /\ e.window_id = window_id /\ e.logical_key[2] = "f"

\* lines 63-66 with the guard comparing the wrong way
is_redraw_arm_other_window(e) ==
    e.variant = "WindowEvent" /\ e.event = "RedrawRequested" /\ e.window_id # window_id

\* lines 63-66: the RedrawRequested pattern and its guard

is_redraw_arm(e) ==
    e.variant = "WindowEvent" /\ e.event = "RedrawRequested" /\ e.window_id = window_id

\* which arm of the match takes the event; the arms are tried in source order
arm(e) ==
    IF is_close_arm(e) THEN "close"
    ELSE IF is_idle_arm(e) THEN "idle"
    ELSE IF is_key_arm(e) THEN "key"
    ELSE IF is_redraw_arm(e) THEN "redraw"
    ELSE "other"

\* lines 57-61 without the branch on window.fullscreen()
toggle_fullscreen_always_on(fs) ==
    "Borderless(None)"

\* lines 57-61: the argument of set_fullscreen
toggle_fullscreen(fs) ==
    IF fs # "None" THEN "None" ELSE "Borderless(None)"

\* lines 69-74 with the guard dropped before the panic
redraw_panic_unlocked(canvas_ok) ==
    IF canvas_ok
        THEN [msg |-> "Simulating a panic in user code!", at |-> "panic!", guard_held |-> FALSE]
        ELSE [msg |-> "unwrap failed", at |-> "canvas", guard_held |-> FALSE]

\* lines 69-74: the panic that ends the RedrawRequested arm
redraw_panic(canvas_ok) ==
    IF canvas_ok
        THEN [msg |-> "Simulating a panic in user code!", at |-> "panic!", guard_held |-> TRUE]
        ELSE [msg |-> "unwrap failed", at |-> "canvas", guard_held |-> FALSE]

\* an unwrap of a failed call: no lock is held anywhere outside the redraw arm
unwrap_panic(call) ==
    [msg |-> "unwrap failed", at |-> call, guard_held |-> FALSE]

----------------------------------------------------------------------------
(* main before event_loop.run: lines 19-30 and 105-137 *)

StartupCalls ==
    <<"EventLoop::new", "WindowBuilder::build", "canvas", "Surface::from_canvas",
      "NonZeroU32::new(width)", "NonZeroU32::new(height)", "resize", "buffer_mut",
      "present", "web_sys::window", "document", "body", "set_property",
      "create_element(h2)", "append_child(h2)", "create_element(ul)", "append_child(ul)">>

Init ==
    /\ phase = "startup"
    /\ stage = 0
    /\ ul_created = 0
    /\ fullscreen = "None"
    /\ exit_requested = FALSE
    /\ redraw_requested = FALSE
    /\ log_list = <<>>
    /\ last_event = NoEvent
    /\ panics = <<>>
    /\ runner_borrowed = FALSE
    /\ canvas_result = "-"
    /\ releases = 0
    /\ logged = 0
    /\ delivered = <<>>

\* the start-up sequence with a failure reported and then ignored
StartupStep_report_and_continue(ok) ==
    /\ phase = "startup"
    /\ stage < Len(StartupCalls)
    /\ stage' = stage + 1
    /\ ul_created' = IF StartupCalls[stage + 1] = "create_element(ul)"
                       THEN ul_created + 1 ELSE ul_created
    /\ phase' = IF stage + 1 = Len(StartupCalls) THEN "running" ELSE "startup"
    /\ panics' = IF ok THEN panics
                  ELSE Append(panics, unwrap_panic(StartupCalls[stage + 1]))
    /\ UNCHANGED <<fullscreen, exit_requested, redraw_requested, log_list, last_event,
                   runner_borrowed, canvas_result, releases, logged, delivered>>

\* one fallible call of the start-up sequence returns, or its unwrap panics
StartupStep(ok) ==
    /\ phase = "startup"
    /\ stage < Len(StartupCalls)
    /\ IF ok
         THEN /\ stage' = stage + 1
              /\ ul_created' = IF StartupCalls[stage + 1] = "create_element(ul)"
                                 THEN ul_created + 1 ELSE ul_created
              /\ phase' = IF stage + 1 = Len(StartupCalls) THEN "running" ELSE "startup"
              /\ UNCHANGED panics
         ELSE /\ phase' = "crashed"
              /\ panics' = Append(panics, unwrap_panic(StartupCalls[stage + 1]))
              /\ UNCHANGED <<stage, ul_created>>
    /\ UNCHANGED <<fullscreen, exit_requested, redraw_requested, log_list, last_event,
                   runner_borrowed, canvas_result, releases, logged, delivered>>

Startup == \E ok \in BOOLEAN : StartupStep(ok)

----------------------------------------------------------------------------
(* the callback, lines 32-83 *)

\* "the key f released in the example's window", read off the event alone
IsOwnFRelease(e) ==
    e \in KeyboardEvents /\ e.window_id = window_id
        /\ e.logical_key = <<"Character", "f">> /\ e.state = "Released"

\* what the page shows of an event: its name, key and key state, read off the event alone
Shown(e) ==
    [kind |-> IF e.variant = "WindowEvent" THEN e.event ELSE e.variant,
     logical_key |-> e.logical_key, state |-> e.state, repeat |-> e.repeat]

\* the callback with the match of lines 36-82 placed before the log_event call of line 34
Callback_match_first(e, dom_fail, canvas_ok, after) ==
    /\ last_event' = e
    /\ exit_requested' = IF arm(e) = "close" THEN TRUE ELSE exit_requested
    /\ redraw_requested' = IF arm(e) = "idle" THEN TRUE ELSE redraw_requested
    /\ fullscreen' = IF arm(e) = "key" THEN toggle_fullscreen(fullscreen) ELSE fullscreen
    /\ IF arm(e) = "redraw"
         THEN /\ phase' = "crashed"
              /\ panics' = Append(panics, redraw_panic(canvas_ok))
              /\ runner_borrowed' = TRUE
              /\ canvas_result' = IF canvas_ok THEN "Some" ELSE "None"
              /\ UNCHANGED <<log_list, releases, logged, delivered>>
         ELSE IF log_text(e) # <<>> /\ dom_fail # 0
         THEN /\ phase' = "crashed"
              /\ panics' = Append(panics, unwrap_panic(LogCalls[dom_fail]))
              /\ runner_borrowed' = TRUE
              /\ UNCHANGED <<log_list, canvas_result, releases, logged, delivered>>
         ELSE /\ log_list' = log_event(log_list, e)
              /\ logged' = IF log_text(e) # <<>> THEN logged + 1 ELSE logged
              /\ delivered' = IF log_text(e) # <<>> THEN Append(delivered, Shown(e))
                               ELSE delivered
              /\ releases' = IF IsOwnFRelease(e) THEN releases + 1 ELSE releases
              /\ phase' = after
              /\ UNCHANGED <<panics, runner_borrowed, canvas_result>>
    /\ UNCHANGED <<stage, ul_created>>

\* log_event followed by the match; dom_fail is 0 or the index of the DOM call that fails,
\* after is the loop's state once the callback has returned
Callback(e, dom_fail, canvas_ok, after) ==
    /\ last_event' = e
    /\ IF log_text(e) # <<>> /\ dom_fail # 0
         THEN \* an unwrap inside log_event panics: nothing is inserted, the match is not reached
              /\ phase' = "crashed"
              /\ panics' = Append(panics, unwrap_panic(LogCalls[dom_fail]))
              /\ runner_borrowed' = TRUE
              /\ UNCHANGED <<fullscreen, exit_requested, redraw_requested, log_list,
                             canvas_result, releases, logged, delivered>>
         ELSE /\ log_list' = log_event(log_list, e)
              /\ logged' = IF e.variant \in {"WindowEvent", "Resumed", "Suspended"}
                                /\ e.event # "RedrawRequested"
                             THEN logged + 1 ELSE logged
              /\ delivered' = IF e.variant \in {"WindowEvent", "Resumed", "Suspended"}
                                   /\ e.event # "RedrawRequested"
                                THEN Append(delivered, Shown(e)) ELSE delivered
              /\ exit_requested' = IF arm(e) = "close" THEN TRUE ELSE exit_requested
              /\ redraw_requested' = IF arm(e) = "idle" THEN TRUE ELSE redraw_requested
              /\ fullscreen' = IF arm(e) = "key" THEN toggle_fullscreen(fullscreen)
                               ELSE fullscreen
              /\ releases' = IF IsOwnFRelease(e) THEN releases + 1 ELSE releases
              /\ IF arm(e) = "redraw"
                   THEN /\ phase' = "crashed"
                        /\ panics' = Append(panics, redraw_panic(canvas_ok))
                        /\ runner_borrowed' = TRUE
                        /\ canvas_result' = IF canvas_ok THEN "Some" ELSE "None"
                   ELSE /\ phase' = after
                        /\ UNCHANGED <<panics, runner_borrowed, canvas_result>>
    /\ UNCHANGED <<stage, ul_created>>

\* the loop hands an event to the callback; once elwt.exit() has been called the
\* library hands over nothing but LoopExiting (its contract for exit)
Dispatch ==
    /\ phase = "running"
    /\ ~exit_requested
    /\ \E e \in Events, dom_fail \in 0..Len(LogCalls), canvas_ok \in BOOLEAN :
        /\ log_text(e) # <<>> => Len(log_list) < MaxLog
        /\ Callback(e, dom_fail, canvas_ok, "running")

\* the loop delivers the RedrawRequested that request_redraw asked for
DeliverRedraw ==
    /\ phase = "running"
    /\ ~exit_requested
    /\ redraw_requested
    /\ \E canvas_ok \in BOOLEAN :
        Callback(Ev("WindowEvent", window_id, "RedrawRequested", NoKey, "-", FALSE),
                 0, canvas_ok, "running")

\* the loop has been told to exit: LoopExiting is the last event, then run returns
LoopExit ==
    /\ phase = "running"
    /\ exit_requested
    /\ Callback(LoopEvent("LoopExiting"), 0, TRUE, "stopped")

\* the tab is refreshed after a panic inside the callback (lines 67, 76-78):
\* the runner is still borrowed, and most of the times a BorrowMutError panic follows
PageTeardown(second) ==
    /\ phase = "crashed"
    /\ runner_borrowed
    /\ phase' = "unloaded"
    /\ panics' = IF second
                   THEN Append(panics, [msg |-> "already borrowed: BorrowMutError",
                                        at |-> "winit", guard_held |-> FALSE])
                   ELSE panics
    /\ UNCHANGED <<stage, ul_created, fullscreen, exit_requested, redraw_requested,
                   log_list, last_event, runner_borrowed, canvas_result, releases, logged,
                   delivered>>

Teardown == \E second \in BOOLEAN : PageTeardown(second)

Next == Startup \/ Dispatch \/ DeliverRedraw \/ LoopExit \/ Teardown

Spec == Init /\ [][Next]_vars

\* the library eventually delivers a requested redraw and eventually leaves a loop told to exit
FairSpec == Spec /\ WF_vars(DeliverRedraw) /\ WF_vars(LoopExit)

----------------------------------------------------------------------------
(* Properties *)

FullscreenOn == "Borderless(None)"

\* the callback was entered in this step and returned normally
Returned == phase = "running" /\ phase' \in {"running", "stopped"}

Odd(n) == n % 2 = 1

\* C1: every own-window release of the key "f" whose callback returns flips the
\* fullscreen state (fullscreen becomes None, anything else becomes borderless
\* fullscreen), and the window is fullscreen exactly when the number of such
\* releases so far is odd.
C1_ToggleOnRelease ==
    /\ [][(Returned /\ IsOwnFRelease(last_event'))
            => /\ fullscreen = FullscreenOn => fullscreen' = "None"
               /\ fullscreen = "None" => fullscreen' = FullscreenOn]_vars
    /\ []((fullscreen = FullscreenOn) <=> Odd(releases))
    /\ [](fullscreen \in {"None", FullscreenOn})

C1_Witness ==
    releases = 2 /\ fullscreen = "None" /\ IsOwnFRelease(last_event)

IsOwnClose(e) ==
    e \in PlainWindowEvents /\ e.event = "CloseRequested" /\ e.window_id = window_id

IsOwnRedraw(e) ==
    e \in PlainWindowEvents /\ e.event = "RedrawRequested" /\ e.window_id = window_id

LastPanic == panics[Len(panics)]

\* C2: a CloseRequested for the example's window whose callback returns has called
\* elwt.exit(); once exit is requested no later event changes the fullscreen state,
\* the redraw request, the log or the exit flag, and the loop eventually stops and
\* then hands over no further event.
C2_CloseExits ==
    /\ [][(Returned /\ IsOwnClose(last_event')) => exit_requested']_vars
    /\ [][exit_requested
            => /\ exit_requested'
               /\ UNCHANGED <<fullscreen, redraw_requested, log_list, panics>>]_vars
    /\ exit_requested ~> (phase = "stopped")
    /\ [][phase = "stopped" => UNCHANGED vars]_vars

C2_Witness ==
    phase = "stopped" /\ exit_requested /\ last_event = LoopEvent("LoopExiting")

\* C3: a RedrawRequested for the example's window never lets the callback return:
\* the step ends in exactly one new panic, and when window.canvas() returned the
\* canvas that panic is "Simulating a panic in user code!", raised with the mutex
\* guard held.
C3_RedrawPanics ==
    [][(phase = "running" /\ IsOwnRedraw(last_event'))
         => /\ phase' = "crashed"
            /\ Len(panics') = Len(panics) + 1
            /\ SubSeq(panics', 1, Len(panics)) = panics
            /\ canvas_result' = "Some"
                 => /\ panics'[Len(panics')].msg = "Simulating a panic in user code!"
                    /\ panics'[Len(panics')].guard_held]_vars

C3_Witness ==
    /\ phase = "crashed" /\ IsOwnRedraw(last_event) /\ canvas_result = "Some"
    /\ LastPanic.msg = "Simulating a panic in user code!" /\ LastPanic.guard_held

\* C4: when the redraw arm has panicked with the lock held, that panic is the only
\* panic ever observed, whatever is delivered afterwards (page teardown included).
C4_OnlyOnePanic ==
    (Len(panics) >= 1 /\ panics[1].guard_held) => Len(panics) = 1

\* C5: every AboutToWait handed to the callback leaves a redraw requested and changes
\* nothing else: the callback returns, the loop is not told to exit, and fullscreen,
\* the log and the panics are as before.
C5_IdleRequestsRedraw ==
    [][(phase = "running" /\ last_event'.variant = "AboutToWait")
         => /\ redraw_requested'
            /\ phase' = "running"
            /\ UNCHANGED <<exit_requested, fullscreen, log_list, panics, stage,
                           ul_created, runner_borrowed>>]_vars

C5_Witness ==
    /\ phase = "running" /\ last_event = LoopEvent("AboutToWait")
    /\ redraw_requested /\ ~exit_requested /\ fullscreen = FullscreenOn

\* "a WindowEvent other than RedrawRequested, or Resumed or Suspended", read off the event alone
LoggedKind(e) ==
    \/ e.variant = "WindowEvent" /\ e.event # "RedrawRequested"
    \/ e.variant \in {"Resumed", "Suspended"}

\* what the entry of a logged event names: the inner window event, or the event itself
KindOf(e) == IF e.variant = "WindowEvent" THEN e.event ELSE e.variant

RemoveAt(q, i) == SubSeq(q, 1, i - 1) \o SubSeq(q, i + 1, Len(q))

\* new is old with exactly one entry added, at position i
AddedAt(old, new, i) == i \in 1..Len(new) /\ RemoveAt(new, i) = old

\* an unwrap inside log_event panicked in this step
LogFailed ==
    /\ phase = "running" /\ phase' = "crashed"
    /\ \E i \in 1..Len(LogCalls) : panics'[Len(panics')].at = LogCalls[i]

Ended == phase \in {"crashed", "unloaded"}

\* C6: the log list is created once, empty, before the callback first runs; a step
\* leaves it as it is or adds exactly one entry and keeps every existing entry as it
\* was; its length is the number of events of the logged kinds whose log_event call
\* has returned.
C6_AppendOnly ==
    /\ [](ul_created <= 1)
    /\ []((phase = "running" \/ last_event # NoEvent) => ul_created = 1)
    /\ [](last_event = NoEvent => log_list = <<>>)
    /\ [](Len(log_list) = logged)
    /\ [][\/ log_list' = log_list
          \/ \E i \in 1..Len(log_list') : AddedAt(log_list, log_list', i)]_vars

C6_Witness ==
    Len(log_list) = 2 /\ logged = 2 /\ log_list[1] # log_list[2]

\* C7 as stated: every event handed to the callback, of any variant, adds a log entry.
C7_EveryEventLogged ==
    [][Returned => Len(log_list') = Len(log_list) + 1]_vars

\* C7 amended: every event of a logged kind (a WindowEvent other than RedrawRequested,
\* Resumed, Suspended) whose callback returns adds one entry naming that event.
C7_LoggedKindsAppend ==
    [][(Returned /\ LoggedKind(last_event'))
         => \E i \in 1..Len(log_list') :
               /\ AddedAt(log_list, log_list', i)
               /\ log_list'[i].event.kind = KindOf(last_event')]_vars

C7_Witness ==
    /\ phase = "running" /\ last_event = LoopEvent("Resumed")
    /\ Len(log_list) = 2 /\ log_list[1].event.kind = "Resumed"

\* C8: a failed call panics at once and changes nothing else; after a panic the
\* program never runs again, repeats no start-up call and invokes the callback no
\* more; the callback is invoked only after every start-up call has succeeded.
C8_NoRecovery ==
    /\ [][(~Ended /\ Len(panics') > Len(panics))
            => /\ phase' = "crashed"
               /\ UNCHANGED <<stage, ul_created, fullscreen, exit_requested,
                              redraw_requested, log_list>>]_vars
    /\ [][Ended
            => /\ phase' \in {"crashed", "unloaded"}
               /\ UNCHANGED <<stage, ul_created, fullscreen, exit_requested,
                              redraw_requested, log_list, last_event>>]_vars
    /\ [][stage' = stage \/ (stage' = stage + 1 /\ panics' = panics)]_vars
    /\ [](last_event # NoEvent => stage = Len(StartupCalls))
    /\ []((Ended /\ stage < Len(StartupCalls))
            => last_event = NoEvent /\ log_list = <<>> /\ ~runner_borrowed)

C8_Witness ==
    /\ phase = "crashed" /\ stage = 6 /\ last_event = NoEvent
    /\ panics = <<unwrap_panic("resize")>>

\* C9: while the loop runs with a redraw requested it eventually stops running (the
\* requested RedrawRequested is delivered and panics, unless the loop ends before);
\* once an own-window RedrawRequested has been handled no further event is handled,
\* so fullscreen and the exit flag never change after it.
C9_RedrawEndsRun ==
    /\ (phase = "running" /\ redraw_requested) ~> (phase # "running")
    /\ [](IsOwnRedraw(last_event) => Ended)
    /\ [][IsOwnRedraw(last_event)
            => UNCHANGED <<last_event, fullscreen, exit_requested, redraw_requested,
                           log_list>>]_vars

C9_Witness ==
    /\ phase = "crashed" /\ redraw_requested /\ IsOwnRedraw(last_event)
    /\ fullscreen = FullscreenOn /\ ~exit_requested

\* C10: a callback step whose log_event call returns adds an entry exactly when the
\* event is of a logged kind, and otherwise leaves the list as it was; no entry of the
\* list ever names RedrawRequested.
C10_LoggedExactly ==
    /\ [][(phase = "running" /\ ~LogFailed)
            => IF LoggedKind(last_event')
                 THEN \E i \in 1..Len(log_list') :
                        /\ AddedAt(log_list, log_list', i)
                        /\ log_list'[i].event.kind = KindOf(last_event')
                 ELSE log_list' = log_list]_vars
    /\ [](\A i \in 1..Len(log_list) : log_list[i].event.kind # "RedrawRequested")

C10_Witness ==
    /\ phase = "crashed" /\ IsOwnRedraw(last_event)
    /\ Len(log_list) = 2 /\ LastPanic.at = "panic!"

\* C11: every new entry becomes the first child of the list, so the list read from
\* the top is the reverse of the order in which the logged events were delivered.
C11_NewestFirst ==
    /\ [][log_list' # log_list
            => /\ AddedAt(log_list, log_list', 1)
               /\ log_list'[1].event = Shown(last_event')]_vars
    /\ [](/\ Len(log_list) = Len(delivered)
          /\ \A i \in 1..Len(log_list) :
                log_list[i].event = delivered[Len(delivered) + 1 - i])

C11_Witness ==
    /\ Len(delivered) = 2 /\ delivered[1] # delivered[2]
    /\ log_list[1].event = delivered[2] /\ log_list[2].event = delivered[1]

IsKeyboard(e) == e.variant = "WindowEvent" /\ e.event = "KeyboardInput"

\* the four events the callback acts on, read off the event alone
Recognised(e) ==
    IsOwnClose(e) \/ IsOwnFRelease(e) \/ IsOwnRedraw(e) \/ e = LoopEvent("AboutToWait")

\* C12: a callback step for an event that is none of own-window CloseRequested,
\* own-window release of "f", own-window RedrawRequested and AboutToWait, and whose
\* log_event call returns, raises no panic and leaves fullscreen, the exit flag and
\* the redraw request as they were.
C12_OtherEventsNoEffect ==
    [][(phase = "running" /\ ~LogFailed /\ ~Recognised(last_event'))
         => /\ phase' \in {"running", "stopped"}
            /\ UNCHANGED <<fullscreen, exit_requested, redraw_requested, panics>>]_vars

C12_Witness ==
    /\ phase = "running" /\ redraw_requested /\ fullscreen = "None"
    /\ last_event = Ev("WindowEvent", window_id, "KeyboardInput", <<"Character", "F">>,
                       "Released", FALSE)

\* C13: a KeyboardInput with state Pressed, repeated or not, never changes the
\* fullscreen state, and the release of "f" that follows a press of "f" in the
\* example's window flips it, so a press-release cycle toggles exactly once.
C13_OnlyReleaseToggles ==
    /\ [][(IsKeyboard(last_event') /\ last_event'.state = "Pressed")
            => fullscreen' = fullscreen]_vars
    /\ [][(/\ Returned
           /\ IsKeyboard(last_event) /\ last_event.state = "Pressed"
           /\ IsOwnFRelease(last_event'))
            => /\ fullscreen' # fullscreen
               /\ releases' = releases + 1]_vars

C13_Witness ==
    /\ phase = "running" /\ IsOwnFRelease(last_event)
    /\ releases = 1 /\ fullscreen = FullscreenOn
    /\ Len(delivered) = 2
    /\ delivered[1].kind = "KeyboardInput" /\ delivered[1].state = "Pressed"
    /\ delivered[1].logical_key = <<"Character", "f">> /\ delivered[1].repeat

\* C14: when a callback step sets the exit flag or changes fullscreen, the entry of
\* that very event has been added to the log in the same callback; a callback step in
\* which log_event panics changes neither the exit flag, nor fullscreen, nor the
\* redraw request, nor the log.
C14_LogBeforeDispatch ==
    /\ [][(phase = "running" /\ (exit_requested' # exit_requested
                                 \/ fullscreen' # fullscreen))
            => \E i \in 1..Len(log_list') :
                  /\ AddedAt(log_list, log_list', i)
                  /\ log_list'[i].event = Shown(last_event')]_vars
    /\ [][LogFailed
            => UNCHANGED <<fullscreen, exit_requested, redraw_requested, log_list,
                           releases>>]_vars

C14_Witness ==
    /\ phase = "crashed" /\ IsOwnClose(last_event) /\ ~exit_requested
    /\ LastPanic.at = "insert_before"
    /\ fullscreen = FullscreenOn /\ Len(log_list) = 1
    /\ log_list[1].event.kind = "KeyboardInput"

====
